---------------------------- MODULE Spec2Model ----------------------------
(***************************************************************************)
(* KafkaOS (johleste/KAFKA-OS): the session state, the time budget         *)
(* enforcer, the audit forwarder, the friction model, the operational      *)
(* mandate and the command loop, as a state machine.                       *)
(*                                                                         *)
(* Python values are modelled as sequences of lexemes (strings): a str is  *)
(* the sequence of its words and punctuation, "" is << >>, None and True   *)
(* are the one-lexeme sequences NoneV and TrueV, which no input can spell. *)
(* Time is counted in whole seconds of time.monotonic(); it advances while *)
(* the process is blocked in input().  A random.random() draw is counted   *)
(* in hundredths (0..99).                                                  *)
(***************************************************************************)
EXTENDS Integers, Sequences, FiniteSets, TLC

VARIABLES
    os_state,   \* kos_core.os_state: the session record
    now,        \* time.monotonic(), in seconds
    proc,       \* the process: running, or exited with a status
    pc,         \* where the process is blocked, with the frame's locals
    trace,      \* history: what the current command did, in order
    last        \* history: the last operation, its inputs and its result

vars == <<os_state, now, proc, pc, trace, last>>

----------------------------------------------------------------------------
(* Program constants.                                                      *)

TIME_LIMIT_SECONDS == 180
WARN_TENTHS == 8
EXIT_TIMEOUT == 2
EXIT_HALT == 0
EXIT_CRASH == 9
EXIT_END_OF_SCRIPT == 0
HIGH_FRICTION_REVIEW_THRESHOLD == 5
BACKLOG_LOCK_THRESHOLD == 10
BACKLOG_LOCK_CHANCE == 20
LOCKOUT_RANDOM_FAILURE_CHANCE == 5
LOCKOUT_PRIME_MINUTE_FILESYSTEM_DAY == 1
MAX_POSITIONAL_ARGS == 1

(* Bounds of the model.                                                    *)
MaxClock == 190
MaxBacklog == 12
StartClock == 1

----------------------------------------------------------------------------
(* Values.                                                                 *)

NoneV == <<"<None>">>
TrueV == <<"<True>">>
Str(w) == <<w>>

Users == {Str("alice")}

REVIEW_ENTITY_KEYS ==
    {"BOOT", "AUTH", "CMD_INTENT", "CMD_EXEC", "FS_ACCESS", "PROC_LAUNCH",
     "STATUS_QUERY", "SHUTDOWN", "COMPLIANCE", "ARBITRARY_LOCKOUT",
     "RE_AUTH", "PURPOSE_VALIDATION"}

SIR_KEY == "SECURITY_INCIDENT_REPORTING (SIR)"

Clearances == {"STANDARD", "FILESYSTEM", "PROCESS_EXEC", "SYSTEM_INFO"}

Refs == {"CMD-1"}

\* The state os_state is created with (kos_core.py, os_state literal).
FreshState ==
    [user_id |-> NoneV, is_authenticated |-> FALSE, session_start_time |-> 0,
     pending_reviews |-> 0, last_command_ref |-> NoneV]

----------------------------------------------------------------------------
(* The execution context threaded through the code of one step: the        *)
(* session record, the clock, how the code left (running, an exception, a  *)
(* sys.exit), the events so far, the random draws not yet consumed and     *)
(* the value the last call returned.                                       *)

Ev(k, v) == [k |-> k, v |-> v]

\* A frame: the handler a command line resolved to, and its parsed arguments.
EmptyDict == [k \in {} |-> <<"<None>">>]
Frame(cmd, raw, args, pos) == [cmd |-> cmd, raw |-> raw, args |-> args, pos |-> pos]
NoFrame == Frame("none", << >>, EmptyDict, << >>)

\* verify_action_intent's parameters, and the handler that called it.
VerifyArgs(caller, requires_purpose, requires_reauth) ==
    [caller |-> caller, requires_purpose |-> requires_purpose,
     requires_reauth |-> requires_reauth]
NoVerify == VerifyArgs("none", FALSE, FALSE)

\* Where the process waits: at a prompt, or before a mandate evaluation.
PC(at, site, f, v, tmp) == [at |-> at, site |-> site, f |-> f, v |-> v, tmp |-> tmp]
NoBlock == PC("none", "", NoFrame, NoVerify, << >>)
AtMain == PC("main", "", NoFrame, NoVerify, << >>)
Halted == PC("halted", "", NoFrame, NoVerify, << >>)

Ctx(st, t, tr) ==
    [st |-> st, now |-> t, out |-> "run", code |-> 0, exc |-> "",
     trace |-> tr, draws |-> << >>, ret |-> FALSE, inp |-> << >>, blk |-> NoBlock]

Block(c, p) == [c EXCEPT !.blk = p]
Live(c) == c.out = "run" /\ c.blk.at = "none"

Emit(c, k, v) == [c EXCEPT !.trace = Append(@, Ev(k, v))]

\* sys.exit(code): SystemExit, which `except Exception` does not catch.
SysExit(c, code) == [Emit(c, "exit", ToString(code)) EXCEPT !.out = "exit", !.code = code]

\* An exception derived from Exception.
Raise(c, exc) == [Emit(c, "raise", exc) EXCEPT !.out = "raise", !.exc = exc]

Return(c, v) == [c EXCEPT !.ret = v]

CountEv(tr, k, v) == Cardinality({i \in 1..Len(tr) : tr[i] = Ev(k, v)})
CountKind(tr, k) == Cardinality({i \in 1..Len(tr) : tr[i].k = k})

----------------------------------------------------------------------------
(* Time budget enforcer: kos_core.check_time_limit.                        *)

Elapsed(st, t) == t - st.session_start_time

\* The enforcer with its two tests chained as if / elif: the warning branch
\* shadows the exhaustion branch, so the check never terminates the process.
check_time_limit_elif(c) ==
    IF c.st.session_start_time = 0
    THEN Emit(c, "budget", "inactive")
    ELSE LET elapsed_time == Elapsed(c.st, c.now)
         IN  IF elapsed_time * 10 > TIME_LIMIT_SECONDS * WARN_TENTHS
             THEN Emit(c, "budget", "WARN")
             ELSE IF elapsed_time > TIME_LIMIT_SECONDS
             THEN SysExit(Emit(c, "budget", "DEBUG"), EXIT_TIMEOUT)
             ELSE Emit(c, "budget", "DEBUG")

check_time_limit(c) ==
    IF c.st.session_start_time = 0
    THEN Emit(c, "budget", "inactive")
    ELSE LET elapsed_time == Elapsed(c.st, c.now)
             c1 == Emit(c, "budget",
                        IF elapsed_time * 10 > TIME_LIMIT_SECONDS * WARN_TENTHS
                        THEN "WARN" ELSE "DEBUG")
         IN  IF elapsed_time > TIME_LIMIT_SECONDS
             THEN SysExit(c1, EXIT_TIMEOUT)
             ELSE c1

\* Binding a call's positional arguments to check_time_limit(step_name=...):
\* more than one positional argument is a TypeError raised before the body.
call_check_time_limit(c, nargs) ==
    IF nargs > MAX_POSITIONAL_ARGS
    THEN Raise(c, "TypeError: check_time_limit()")
    ELSE check_time_limit(c)

\* The call the handlers and verify make, through os_state['utils']:
\* check_time(os_state['session_start_time'], label), two positional arguments.
check_time(c) == call_check_time_limit(Emit(c, "check_time", "handler"), 2)

----------------------------------------------------------------------------
(* Audit forwarder and friction: kos_bureaucracy.                          *)

Reviewer(entity_key) ==
    IF entity_key \in REVIEW_ENTITY_KEYS THEN entity_key ELSE "Default Audit Sink"

\* The forwarder with a subscript lookup REVIEW_ENTITIES[entity_key] in place
\* of .get(entity_key, default): a tag outside the table is a KeyError.
simulate_forwarding_subscript(c, entity_key) ==
    IF entity_key \notin REVIEW_ENTITY_KEYS
    THEN Raise(c, "KeyError")
    ELSE LET c1 == Emit(c, "fwd", entity_key)
             c2 == [c1 EXCEPT !.st.pending_reviews = @ + 1]
         IN  Emit(c2, "ack", Reviewer(entity_key))

simulate_forwarding(c, entity_key) ==
    LET c1 == Emit(c, "fwd", entity_key)
        c2 == [c1 EXCEPT !.st.pending_reviews = @ + 1]
    IN  Emit(c2, "ack", Reviewer(entity_key))

\* Friction with the threshold test written >=: a backlog equal to the
\* threshold pays the delay too.
apply_procedural_friction_inclusive(c) ==
    IF c.st.pending_reviews >= HIGH_FRICTION_REVIEW_THRESHOLD
    THEN Emit(c, "friction", "delay")
    ELSE Emit(c, "friction", "none")

apply_procedural_friction(c) ==
    IF c.st.pending_reviews > HIGH_FRICTION_REVIEW_THRESHOLD
    THEN Emit(c, "friction", "delay")
    ELSE Emit(c, "friction", "none")

perform_simulated_check(c) == Return(c, TRUE)

----------------------------------------------------------------------------
(* Operational mandate: kos_bureaucracy.check_operational_mandate.         *)

\* int(minute ** 0.5)
isqrt(n) == CHOOSE r \in 0..n : r * r <= n /\ (r + 1) * (r + 1) > n

\* The trial division with its range one short: range(2, int(minute ** 0.5)).
is_prime_short(minute) ==
    IF minute < 2 THEN FALSE
    ELSE \A i \in 2..(isqrt(minute) - 1) : minute % i # 0

is_prime(minute) ==
    IF minute < 2 THEN FALSE
    ELSE \A i \in 2..isqrt(minute) : minute % i # 0

\* random.random(): the next draw of the stream.
\* A generator seeded anew before each draw: every draw is the same value.
random_draw_seeded(c) == BACKLOG_LOCK_CHANCE

random_draw(c) == Head(c.draws)
consume_draw(c) == [Emit(c, "draw", "random") EXCEPT !.draws = Tail(@)]

\* A denial that logs its message and returns without the audit event.
mandate_deny_silent(c, rule) == Return(Emit(c, "deny", rule), FALSE)

mandate_deny(c, rule) ==
    Return(simulate_forwarding(Emit(c, "deny", rule), "ARBITRARY_LOCKOUT"), FALSE)

mandate_rule3(c) ==
    LET d == random_draw(c)
        c1 == consume_draw(c)
    IN  IF d < LOCKOUT_RANDOM_FAILURE_CHANCE
        THEN mandate_deny(c1, "SPOTCHECK")
        ELSE Return(Emit(c1, "allow", "mandate"), TRUE)

\* The lockout rule with an inclusive threshold (>= in place of >).
mandate_rule2_inclusive(c, pending) ==
    IF pending >= BACKLOG_LOCK_THRESHOLD
    THEN LET d == random_draw(c)
             c1 == consume_draw(c)
         IN  IF d < BACKLOG_LOCK_CHANCE
             THEN mandate_deny(c1, "BACKLOG")
             ELSE mandate_rule3(c1)
    ELSE mandate_rule3(c)

mandate_rule2(c, pending) ==
    IF pending > BACKLOG_LOCK_THRESHOLD
    THEN LET d == random_draw(c)
             c1 == consume_draw(c)
         IN  IF d < BACKLOG_LOCK_CHANCE
             THEN mandate_deny(c1, "BACKLOG")
             ELSE mandate_rule3(c1)
    ELSE mandate_rule3(c)

check_operational_mandate(c, required_clearance, minute, day_of_week) ==
    LET pending == c.st.pending_reviews
        c1 == apply_procedural_friction(Emit(c, "mandate", required_clearance))
    IN  IF /\ required_clearance = "FILESYSTEM"
           /\ day_of_week = LOCKOUT_PRIME_MINUTE_FILESYSTEM_DAY
           /\ is_prime(minute)
        THEN mandate_deny(c1, "FS-PRIME")
        ELSE mandate_rule2(c1, pending)

----------------------------------------------------------------------------
(* Strings, as sequences of lexemes.  A word lexeme stands for a run of    *)
(* characters that holds no whitespace and no '=', and does not start with *)
(* '-'; after a single leading '-' every lexeme is one character.          *)

WS == " "

RECURSIVE LStrip(_)
LStrip(s) == IF s # << >> /\ Head(s) = WS THEN LStrip(Tail(s)) ELSE s

RECURSIVE RStrip(_)
RStrip(s) ==
    IF s # << >> /\ s[Len(s)] = WS THEN RStrip(SubSeq(s, 1, Len(s) - 1)) ELSE s

\* str.strip()
Strip(s) == RStrip(LStrip(s))

\* str.split(): the maximal runs of non-whitespace lexemes.
RECURSIVE SplitFrom(_, _, _)
SplitFrom(s, cur, acc) ==
    IF s = << >>
    THEN IF cur = << >> THEN acc ELSE Append(acc, cur)
    ELSE IF Head(s) = WS
         THEN SplitFrom(Tail(s), << >>, IF cur = << >> THEN acc ELSE Append(acc, cur))
         ELSE SplitFrom(Tail(s), Append(cur, Head(s)), acc)

Split(s) == SplitFrom(s, << >>, << >>)

StartsWith(s, prefix) ==
    Len(s) >= Len(prefix) /\ SubSeq(s, 1, Len(prefix)) = prefix

Drop(s, n) == SubSeq(s, n + 1, Len(s))

\* The position of the first '=' of a token, 0 when it has none.
FirstEq(tok) ==
    IF \E i \in 1..Len(tok) : tok[i] = "="
    THEN CHOOSE i \in 1..Len(tok) : tok[i] = "=" /\ \A j \in 1..(i - 1) : tok[j] # "="
    ELSE 0

\* str.lower() of a command word: the words the inputs spell in capitals.
Lower(w) ==
    CASE w = "KLOGIN" -> "klogin"
      [] w = "Klogin" -> "klogin"
      [] w = "HELP"   -> "help"
      [] w = "KHALT"  -> "khalt"
      [] w = "EXIT"   -> "exit"
      [] w = "KLS"    -> "kls"
      [] OTHER        -> w

LowerStr(s) == [i \in 1..Len(s) |-> Lower(s[i])]

\* Python truth value of a str / None / True.
Truthy(v) == v # NoneV /\ v # << >>
Or(a, b) == IF Truthy(a) THEN a ELSE b

\* dict: a function from keys to values.
DictSet(d, k, v) == (k :> v) @@ d
DictGet(d, k) == IF k \in DOMAIN d THEN d[k] ELSE NoneV

\* for char in arg[1:]: args[char] = True
RECURSIVE SetFlags(_, _)
SetFlags(d, chars) ==
    IF chars = << >> THEN d
    ELSE SetFlags(DictSet(d, Str(Head(chars)), TrueV), Tail(chars))

\* kos_core.parse_args: (args, positional) of a list of tokens.
RECURSIVE parse_args_from(_, _, _, _)
parse_args_from(arg_list, i, args, positional) ==
    IF i > Len(arg_list) THEN [args |-> args, positional |-> positional]
    ELSE LET arg == arg_list[i]
         IN  IF StartsWith(arg, <<"-", "-">>)
             THEN IF FirstEq(arg) # 0
                  THEN LET key == SubSeq(arg, 1, FirstEq(arg) - 1)
                           value == Drop(arg, FirstEq(arg))
                       IN  parse_args_from(arg_list, i + 1,
                                           DictSet(args, Drop(key, 2), value), positional)
                  ELSE LET key == Drop(arg, 2)
                       IN  IF i + 1 <= Len(arg_list) /\ ~StartsWith(arg_list[i + 1], <<"-">>)
                           THEN parse_args_from(arg_list, i + 2,
                                                DictSet(args, key, arg_list[i + 1]), positional)
                           ELSE parse_args_from(arg_list, i + 1,
                                                DictSet(args, key, TrueV), positional)
             ELSE IF StartsWith(arg, <<"-">>)
                  THEN parse_args_from(arg_list, i + 1, SetFlags(args, Drop(arg, 1)), positional)
                  ELSE parse_args_from(arg_list, i + 1, args, Append(positional, arg))

parse_args(arg_list) == parse_args_from(arg_list, 1, EmptyDict, << >>)

----------------------------------------------------------------------------
(* Inputs.                                                                 *)

CONFIRMATION_PHRASE == Str("I_ACKNOWLEDGE_AND_COMPLY_WITH_ALL_PROTOCOLS")
TERMINATE_SESSION == Str("TERMINATE_SESSION")
STANDARD_PURPOSE_CODE_FS == Str("FS-QUERY-7701")
STANDARD_PURPOSE_CODE_PROC == Str("PROC-EXEC-8804")
SECURE_COMM_PURPOSE_CODE == Str("SEC-DATA-9901")
STATUS_PURPOSE_CODE == Str("SYS-HEALTH-0101")
SHUTDOWN_AUTH_CODE_BASE == "HALT_SYS_MOD_"

\* What input() can deliver: a line, end of input, or an interrupt.
Line(s) == [kind |-> "line", text |-> s]
EOF == [kind |-> "eof", text |-> << >>]
INTR == [kind |-> "intr", text |-> << >>]

CommandLines ==
    { <<"klogin">>, <<"KLOGIN">>, <<"klogout">>, <<"kls">>, <<"kexec">>,
      <<"kstatus">>, <<"khalt">>, <<"shutdown">>, <<"exit">>, <<"help">>,
      <<"foo">>, <<"./", "prog">>, << >>, <<WS>>,
      <<"khalt", WS, "-", "-", "force">>,
      <<"exit", WS, "-", "f">>,
      <<WS, "klogout", WS>> }

PromptLines ==
    { TERMINATE_SESSION, CONFIRMATION_PHRASE, <<"alice">>, <<"bob">>,
      <<"1", "2", "3", "4", "5", "6">>, <<"1", "2", "3", "4", "5">>,
      <<"1", "2", "x", "4", "5", "6">> }

\* At the main prompt a line is a command line; at a prompt of a handler it
\* is an answer, right or wrong.
InputsAt(at) ==
    {EOF, INTR} \cup {Line(s) : s \in IF at = "main" THEN CommandLines
                                      ELSE PromptLines \cup {<< >>}}

\* Seconds that pass while the process waits in input().
Deltas == {0, TIME_LIMIT_SECONDS \div 2, TIME_LIMIT_SECONDS \div 2 + 1}

\* random.random() draws, in hundredths, around the two thresholds.
Draws == {LOCKOUT_RANDOM_FAILURE_CHANCE - 1, LOCKOUT_RANDOM_FAILURE_CHANCE,
          BACKLOG_LOCK_CHANCE - 1, BACKLOG_LOCK_CHANCE}
DrawStreams == {<<d1, d2>> : d1 \in Draws, d2 \in Draws}


----------------------------------------------------------------------------
(* kos_shutdown.handle_shutdown.  code_suffix is the minute and second     *)
(* digit datetime.now() gave when the handler read the clock.              *)

\* The tail of the handler: the halt itself.
shutdown_halt(c) ==
    LET c1 == simulate_forwarding(perform_simulated_check(perform_simulated_check(c)),
                                  "SHUTDOWN")
        c2 == [c1 EXCEPT !.st.is_authenticated = FALSE]
    IN  SysExit(Emit(c2, "halt", "KAFKAOS SYSTEM HALT"), EXIT_HALT)

----------------------------------------------------------------------------
(* kos_bureaucracy.verify_action_intent, cut at its prompts.               *)

verify_finish(c) ==
    Return(simulate_forwarding(apply_procedural_friction(c), "CMD_INTENT"), TRUE)

\* 3. Re-authentication, up to its prompt.
verify_reauth_start(c, f, v) ==
    IF v.requires_reauth /\ c.st.is_authenticated
    THEN LET c1 == check_time(c)
         IN  IF Live(c1) THEN Block(c1, PC("verify_reauth", "", f, v, << >>)) ELSE c1
    ELSE verify_finish(c)

\* 3. Re-authentication, from the answer on.
verify_reauth(c, f, v, re_auth_id) ==
    IF re_auth_id # c.st.user_id
    THEN Return(simulate_forwarding(Emit(c, "reauth", "fail"), "RE_AUTH"), FALSE)
    ELSE verify_finish(simulate_forwarding(
             perform_simulated_check(Emit(c, "reauth", "ok")), "RE_AUTH"))

\* 2. Purpose code.
verify_purpose(c, f, v) ==
    IF v.requires_purpose
    THEN LET c1 == check_time(c)
             c2 == perform_simulated_check(c1)
         IN  IF ~Live(c1) THEN c1
             ELSE IF ~c2.ret THEN Return(Emit(c2, "purpose", "fail"), FALSE)
             ELSE verify_reauth_start(simulate_forwarding(c2, "PURPOSE_VALIDATION"), f, v)
    ELSE verify_reauth_start(c, f, v)

\* 1. Confirmation phrase, from the answer on.
verify_confirm(c, f, v, confirm) ==
    IF confirm # CONFIRMATION_PHRASE
    THEN Return(Emit(c, "confirm", "fail"), FALSE)
    ELSE verify_purpose(perform_simulated_check(Emit(c, "confirm", "ok")), f, v)

\* The start of the protocol, up to the confirmation prompt.
verify_start(c, f, v) ==
    LET c0 == Emit(c, "verify", v.caller)
        c1 == check_time(c0)
    IN  IF Live(c1)
        THEN Block(apply_procedural_friction(c1), PC("verify_confirm", "", f, v, << >>))
        ELSE c1

----------------------------------------------------------------------------
(* The handlers, from the return of verify on.                             *)

\* kos_fs.handle_ls
ls_after_verify(c, f) ==
    IF ~c.ret THEN Emit(c, "abort", "verify")
    ELSE simulate_forwarding(perform_simulated_check(Emit(c, "execute", "kls")), "FS_ACCESS")

\* kos_proc.handle_exec
exec_after_verify(c, f) ==
    IF ~c.ret THEN Emit(c, "abort", "verify")
    ELSE LET c1 == perform_simulated_check(Emit(c, "execute", "kexec"))
         IN  IF c1.ret
             THEN simulate_forwarding(simulate_forwarding(c1, "PROC_LAUNCH"), "CMD_EXEC")
             ELSE simulate_forwarding(c1, "CMD_EXEC")

\* kos_status.handle_status
status_after_verify(c, f) ==
    IF ~c.ret THEN Emit(c, "abort", "verify")
    ELSE simulate_forwarding(
             apply_procedural_friction(perform_simulated_check(Emit(c, "execute", "kstatus"))),
             "STATUS_QUERY")

\* kos_shutdown.handle_shutdown; tmp is the expected code's suffix.
shutdown_after_verify(c, f, code_suffix) ==
    IF ~c.ret THEN Emit(c, "abort", "verify")
    ELSE IF DictGet(f.args, Str("auth-code")) # <<SHUTDOWN_AUTH_CODE_BASE>> \o code_suffix
    THEN Emit(c, "abort", "auth-code")
    ELSE shutdown_halt(c)

after_verify(c, f, v, tmp) ==
    IF ~Live(c) THEN c
    ELSE CASE v.caller = "kls"     -> ls_after_verify(c, f)
           [] v.caller = "kexec"   -> exec_after_verify(c, f)
           [] v.caller = "kstatus" -> status_after_verify(c, f)
           [] OTHER                -> shutdown_after_verify(c, f, tmp)

----------------------------------------------------------------------------
(* The handlers, from the return of their mandate evaluation on.           *)

purpose_of(f) == Or(DictGet(f.args, Str("p")), DictGet(f.args, Str("purpose")))

ls_after_mandate(c, f, minute) ==
    LET expected_mode == IF minute % 2 = 0 THEN Str("audit") ELSE Str("standard")
    IN  IF ~c.ret THEN Emit(c, "abort", "mandate")
        ELSE IF DictGet(f.args, Str("view-mode")) # expected_mode
        THEN Emit(c, "abort", "view-mode")
        ELSE IF purpose_of(f) # STANDARD_PURPOSE_CODE_FS
        THEN Emit(c, "abort", "purpose")
        ELSE verify_start(c, f, VerifyArgs("kls", TRUE, FALSE))

exec_after_mandate(c, f) ==
    LET program_path == f.pos[1]
        is_secure_comm == program_path[Len(program_path)] = "secure_comm_client.app"
        expected_purpose == IF is_secure_comm THEN SECURE_COMM_PURPOSE_CODE
                            ELSE STANDARD_PURPOSE_CODE_PROC
    IN  IF ~c.ret THEN Emit(c, "abort", "mandate")
        ELSE IF f.pos = << >> THEN Emit(c, "abort", "program")
        ELSE IF ~Truthy(purpose_of(f)) THEN Emit(c, "abort", "purpose")
        ELSE IF purpose_of(f) # expected_purpose THEN Emit(c, "abort", "purpose")
        ELSE IF is_secure_comm /\ ~Truthy(DictGet(f.args, Str("packet-id")))
        THEN Emit(c, "abort", "packet-id")
        ELSE verify_start(c, f, VerifyArgs("kexec", TRUE, TRUE))

status_after_mandate(c, f) ==
    LET compliance_flag == Or(DictGet(f.args, Str("compliance-check")), DictGet(f.args, Str("c")))
    IN  IF ~c.ret THEN Emit(c, "abort", "mandate")
        ELSE IF ~Truthy(compliance_flag) THEN Emit(c, "abort", "compliance-check")
        ELSE IF purpose_of(f) # STATUS_PURPOSE_CODE THEN Emit(c, "abort", "purpose")
        ELSE verify_start(c, f, VerifyArgs("kstatus", TRUE, FALSE))

----------------------------------------------------------------------------
(* The handlers, from their first statement to their first wait.           *)

\* The opening of a privileged handler without its authentication test.
privileged_start_open(c, f, site) ==
    LET c1 == check_time(c)
    IN  IF Live(c1) THEN Block(c1, PC("mandate", site, f, NoVerify, << >>)) ELSE c1

\* kls, kexec and kstatus open alike: authentication, budget, mandate.
privileged_start(c, f, site) ==
    IF ~c.st.is_authenticated THEN Emit(c, "abort", "unauthenticated")
    ELSE LET c1 == check_time(c)
         IN  IF Live(c1) THEN Block(c1, PC("mandate", site, f, NoVerify, << >>)) ELSE c1

handle_ls(c, f) == privileged_start(c, f, "kls")
handle_exec(c, f) == privileged_start(c, f, "kexec")
handle_status(c, f) == privileged_start(c, f, "kstatus")

\* The shutdown handler with the authentication test ahead of the force
\* test: an unauthenticated session cannot halt, forced or not.
handle_shutdown_authonly(c, f, forced, code_suffix) ==
    LET is_forced == forced \/ Truthy(Or(DictGet(f.args, Str("force")), DictGet(f.args, Str("f"))))
    IN  IF ~c.st.is_authenticated THEN Emit(c, "abort", "unauthenticated")
        ELSE IF is_forced THEN shutdown_halt(c)
        ELSE LET c1 == check_time(c)
             IN  IF ~Live(c1) THEN c1
                 ELSE LET c2 == verify_start(c1, f, VerifyArgs("khalt", FALSE, TRUE))
                      IN  IF c2.blk.at = "none" THEN c2
                          ELSE Block(c2, [c2.blk EXCEPT !.tmp = code_suffix])

\* The shutdown handler with its parameter forced defaulting to True: every
\* call is a forced one.
handle_shutdown_forced(c, f, forced, code_suffix) == shutdown_halt(c)

handle_shutdown(c, f, forced, code_suffix) ==
    LET is_forced == forced \/ Truthy(Or(DictGet(f.args, Str("force")), DictGet(f.args, Str("f"))))
    IN  IF ~c.st.is_authenticated /\ ~is_forced THEN Emit(c, "abort", "unauthenticated")
        ELSE IF is_forced THEN shutdown_halt(c)
        ELSE LET c1 == check_time(c)
             IN  IF ~Live(c1) THEN c1
                 ELSE LET c2 == verify_start(c1, f, VerifyArgs("khalt", FALSE, TRUE))
                      IN  IF c2.blk.at = "none" THEN c2
                          ELSE Block(c2, [c2.blk EXCEPT !.tmp = code_suffix])

\* The login handler without its test for a session already authenticated.
handle_login_reenter(c, f) ==
    LET c1 == check_time(c)
    IN  IF Live(c1) THEN Block(c1, PC("login_username", "", f, NoVerify, << >>)) ELSE c1

\* kos_auth.handle_login
handle_login(c, f) ==
    IF c.st.is_authenticated THEN Emit(c, "abort", "already authenticated")
    ELSE LET c1 == check_time(c)
         IN  IF Live(c1) THEN Block(c1, PC("login_username", "", f, NoVerify, << >>)) ELSE c1

login_username(c, f, temp_user_id) ==
    IF ~Truthy(temp_user_id) THEN Emit(c, "abort", "null username")
    ELSE Block(c, PC("login_password", "", f, NoVerify, temp_user_id))

login_password(c, f, temp_user_id) ==
    LET c1 == perform_simulated_check(c)
        c2 == check_time(c1)
    IN  IF ~c1.ret THEN Emit(c1, "abort", "credential")
        ELSE IF Live(c2) THEN Block(c2, PC("login_mfa", "", f, NoVerify, temp_user_id))
        ELSE c2

Digits == {"0", "1", "2", "3", "4", "5", "6", "7", "8", "9"}
\* str.isdigit(): non-empty and every character a digit.
IsDigit(s) == s # << >> /\ \A i \in 1..Len(s) : s[i] \in Digits

login_mfa(c, f, temp_user_id, mfa_code) ==
    IF ~IsDigit(mfa_code) \/ Len(mfa_code) # 6 THEN Emit(c, "abort", "mfa format")
    ELSE LET c1 == perform_simulated_check(c)
             c2 == [c1 EXCEPT !.st.user_id = temp_user_id,
                              !.st.is_authenticated = TRUE,
                              !.st.session_start_time = c.now]
         IN  IF c1.ret THEN simulate_forwarding(Emit(c2, "login", "ok"), "AUTH")
             ELSE Emit(c1, "abort", "mfa")

\* kos_auth.handle_logout
handle_logout(c, f) ==
    IF ~c.st.is_authenticated THEN Emit(c, "abort", "no session")
    ELSE Block(c, PC("logout_confirm", "", f, NoVerify, c.st.user_id))

\* The logout completion without the timer reset of its last line.
logout_confirm_keeptimer(c, f, user, confirm) ==
    IF confirm # TERMINATE_SESSION THEN Emit(c, "abort", "logout")
    ELSE LET c1 == simulate_forwarding(perform_simulated_check(c), "AUTH")
         IN  [Emit(c1, "logout", "ok") EXCEPT !.st.user_id = NoneV,
                                             !.st.is_authenticated = FALSE]

\* The logout completion also clearing the backlog with the session.
logout_confirm_purge(c, f, user, confirm) ==
    IF confirm # TERMINATE_SESSION THEN Emit(c, "abort", "logout")
    ELSE LET c1 == simulate_forwarding(perform_simulated_check(c), "AUTH")
         IN  [Emit(c1, "logout", "ok") EXCEPT !.st.user_id = NoneV,
                                             !.st.is_authenticated = FALSE,
                                             !.st.session_start_time = 0,
                                             !.st.pending_reviews = 0]

\* The logout completion that takes any non-empty answer for the
\* confirmation.
logout_confirm_any(c, f, user, confirm) ==
    IF confirm = << >> THEN Emit(c, "abort", "logout")
    ELSE LET c1 == simulate_forwarding(perform_simulated_check(c), "AUTH")
         IN  [Emit(c1, "logout", "ok") EXCEPT !.st.user_id = NoneV,
                                             !.st.is_authenticated = FALSE,
                                             !.st.session_start_time = 0]

logout_confirm(c, f, user, confirm) ==
    IF confirm # TERMINATE_SESSION THEN Emit(c, "abort", "logout")
    ELSE LET c1 == simulate_forwarding(perform_simulated_check(c), "AUTH")
         IN  [Emit(c1, "logout", "ok") EXCEPT !.st.user_id = NoneV,
                                             !.st.is_authenticated = FALSE,
                                             !.st.session_start_time = 0]

\* COMMANDS["help"]: a lambda of three positional parameters, called with
\* the keyword get_input_func, which it does not take.
help_lambda(c, f) == Raise(c, "TypeError: <lambda>()")

----------------------------------------------------------------------------
(* kos_core.get_user_input: the value input() delivered, stripped; end of  *)
(* input calls the shutdown handler, forced; an interrupt returns "".       *)

\* The prompt with one handler for both exceptions: an interrupt halts as
\* end of input does.
get_user_input_halting(c, ans) ==
    LET c1 == Emit(c, "prompt", ans.kind)
    IN  CASE ans.kind \in {"eof", "intr"} ->
                 handle_shutdown(Emit(c1, "log", "EOF detected"), NoFrame, TRUE, << >>)
          [] OTHER -> [c1 EXCEPT !.inp = Strip(ans.text)]

get_user_input(c, ans) ==
    LET c1 == Emit(c, "prompt", ans.kind)
    IN  CASE ans.kind = "eof"  -> handle_shutdown(Emit(c1, "log", "EOF detected"), NoFrame, TRUE, << >>)
          [] ans.kind = "intr" -> [c1 EXCEPT !.inp = << >>]
          [] OTHER             -> [c1 EXCEPT !.inp = Strip(ans.text)]

----------------------------------------------------------------------------
(* kos_core.command_loop, one iteration, cut at its waits.                 *)

COMMANDS(name) ==
    CASE name = Str("klogin")   -> "handle_login"
      [] name = Str("klogout")  -> "handle_logout"
      [] name = Str("kls")      -> "handle_ls"
      [] name = Str("ls")       -> "handle_ls"
      [] name = Str("kexec")    -> "handle_exec"
      [] name = Str("./")       -> "handle_exec"
      [] name = Str("kstatus")  -> "handle_status"
      [] name = Str("khalt")    -> "handle_shutdown"
      [] name = Str("shutdown") -> "handle_shutdown"
      [] name = Str("exit")     -> "handle_shutdown"
      [] name = Str("help")     -> "help"
      [] OTHER                  -> "none"

\* The commands the loop does not put to the mandate, as it spells them.
MANDATE_EXEMPT == {Str("klogin"), Str("help"), Str("exit"), Str("shutdown"), Str("khalt")}

\* The top of the loop: the idle budget check, then the prompt.
loop_top(c) ==
    LET c1 == call_check_time_limit(Emit(c, "check_time", "idle"), 1)
    IN  IF Live(c1) THEN Block(c1, AtMain) ELSE c1

\* command_handler(os_state, args_dict, positional_args, get_input_func=...)
call_handler(c, f, code_suffix) ==
    LET c1 == Emit(c, "handler", f.cmd)
    IN  CASE f.cmd = "handle_login"    -> handle_login(c1, f)
          [] f.cmd = "handle_logout"   -> handle_logout(c1, f)
          [] f.cmd = "handle_ls"       -> handle_ls(c1, f)
          [] f.cmd = "handle_exec"     -> handle_exec(c1, f)
          [] f.cmd = "handle_status"   -> handle_status(c1, f)
          [] f.cmd = "handle_shutdown" -> handle_shutdown(c1, f, FALSE, code_suffix)
          [] f.cmd = "help"            -> help_lambda(c1, f)
          [] OTHER                     -> Emit(c, "unknown", "ignored")

\* From the line read at the main prompt to the first wait.
command_loop_body(c, full_command_line, ref, code_suffix) ==
    IF full_command_line = << >> THEN Emit(c, "continue", "empty")
    ELSE LET parts == Split(full_command_line)
             command_name_raw == parts[1]
             dot == StartsWith(command_name_raw, <<"./">>)
             cmd == IF dot THEN COMMANDS(Str("./")) ELSE COMMANDS(LowerStr(command_name_raw))
             pa == IF dot THEN parse_args(parts) ELSE parse_args(Tail(parts))
             f == Frame(cmd, command_name_raw, pa.args, pa.positional)
             c1 == Emit([c EXCEPT !.st.last_command_ref = Str(ref)], "cmd", cmd)
         IN  IF cmd # "none" /\ command_name_raw \notin MANDATE_EXEMPT
             THEN Block(c1, PC("mandate", "dispatch", f, NoVerify, << >>))
             ELSE call_handler(c1, f, code_suffix)

ClearanceOf(site) ==
    CASE site = "kls"     -> "FILESYSTEM"
      [] site = "kexec"   -> "PROCESS_EXEC"
      [] site = "kstatus" -> "SYSTEM_INFO"
      [] OTHER            -> "STANDARD"

\* The dispatch with a mandate evaluation whose result is not looked at: the
\* handler is called after a denial too.
after_mandate_through(c, p, minute, code_suffix) ==
    CASE p.site = "kls"     -> ls_after_mandate(c, p.f, minute)
      [] p.site = "kexec"   -> exec_after_mandate(c, p.f)
      [] p.site = "kstatus" -> status_after_mandate(c, p.f)
      [] OTHER              -> IF ~c.ret
                               THEN call_handler(Emit(c, "continue", "mandate"),
                                                 p.f, code_suffix)
                               ELSE call_handler(c, p.f, code_suffix)

\* From the return of a mandate evaluation to the next wait.
after_mandate(c, p, minute, code_suffix) ==
    CASE p.site = "kls"     -> ls_after_mandate(c, p.f, minute)
      [] p.site = "kexec"   -> exec_after_mandate(c, p.f)
      [] p.site = "kstatus" -> status_after_mandate(c, p.f)
      [] OTHER              -> IF ~c.ret THEN Emit(c, "continue", "mandate")
                               ELSE call_handler(c, p.f, code_suffix)

KeepTmp(c, tmp) == IF c.blk.at = "none" THEN c ELSE Block(c, [c.blk EXCEPT !.tmp = tmp])

\* From the answer to a prompt to the next wait.
resume(c, p, inp, ref, code_suffix) ==
    CASE p.at = "main"           -> command_loop_body(c, inp, ref, code_suffix)
      [] p.at = "login_username" -> login_username(c, p.f, inp)
      [] p.at = "login_password" -> login_password(c, p.f, p.tmp)
      [] p.at = "login_mfa"      -> login_mfa(c, p.f, p.tmp, inp)
      [] p.at = "logout_confirm" -> logout_confirm(c, p.f, p.tmp, inp)
      [] p.at = "verify_confirm" ->
            KeepTmp(after_verify(verify_confirm(c, p.f, p.v, inp), p.f, p.v, p.tmp), p.tmp)
      [] p.at = "verify_reauth"  ->
            after_verify(verify_reauth(c, p.f, p.v, inp), p.f, p.v, p.tmp)
      [] OTHER                   -> c

\* The end of an iteration: the handler returned, or `except Exception`
\* caught what it raised, or the loop said continue; back to the top.
settle(c) ==
    IF c.out = "exit" \/ c.blk.at # "none" THEN c
    ELSE IF c.out = "raise"
    THEN loop_top([Emit(c, "caught", c.exc) EXCEPT !.out = "run"])
    ELSE loop_top(c)

\* main_kos.py: SystemExit is caught and the script runs to its end.
main_exit_status(c) == IF c.out = "exit" THEN EXIT_END_OF_SCRIPT ELSE EXIT_CRASH

----------------------------------------------------------------------------
(* The state machine.                                                      *)

Running == [state |-> "running", code |-> 0, status |-> 0]
Exited(code, status) == [state |-> "exited", code |-> code, status |-> status]

Prompts == {"main", "login_username", "login_password", "login_mfa",
            "logout_confirm", "verify_confirm", "verify_reauth"}

ProgMinutes == {4, 7}
ProgDays == {0, LOCKOUT_PRIME_MINUTE_FILESYSTEM_DAY}
CodeSuffixes == {<<"07", "3">>}

\* The record of an operation: what ran, from where, on what input, from
\* which session record and clock, and how it ended.
Last(op, ans, cmd_pre, line, c) ==
    [op |-> op, at |-> pc.at, site |-> pc.site, ans |-> ans,
     pre |-> os_state, pre_now |-> now, cmd_pre |-> cmd_pre, line |-> line,
     out |-> c.out, code |-> c.code, ret |-> c.ret]

Commit(c) ==
    /\ os_state' = c.st
    /\ now' = c.now
    /\ trace' = c.trace
    /\ proc' = IF c.out = "run" THEN Running ELSE Exited(c.code, main_exit_status(c))
    /\ pc' = IF c.out = "run" THEN c.blk ELSE Halted

\* initialize_system, then the first pass through the top of the loop.
Boot == loop_top(simulate_forwarding(Ctx(FreshState, StartClock, << >>), "BOOT"))

NoAns == [kind |-> "none", text |-> << >>]

Init ==
    /\ os_state = Boot.st
    /\ now = Boot.now
    /\ trace = Boot.trace
    /\ proc = Running
    /\ pc = Boot.blk
    /\ last = [op |-> "boot", at |-> "none", site |-> "", ans |-> NoAns,
               pre |-> FreshState, pre_now |-> StartClock, cmd_pre |-> Boot.st,
               line |-> << >>, out |-> "run", code |-> 0, ret |-> FALSE]

\* input() returns (a line, end of input or an interrupt) after dt seconds,
\* and the process runs to its next wait.
Answer(ans, dt, ref, code_suffix) ==
    /\ proc.state = "running"
    /\ pc.at \in Prompts
    /\ ans \in InputsAt(pc.at)
    /\ now + dt <= MaxClock
    /\ pc.at = "main" => os_state.pending_reviews < MaxBacklog
    /\ LET c0 == Ctx(os_state, now + dt, IF pc.at = "main" THEN << >> ELSE trace)
           c1 == get_user_input(c0, ans)
           c2 == IF Live(c1) THEN resume(c1, pc, c1.inp, ref, code_suffix) ELSE c1
           c3 == settle(c2)
       IN  /\ Commit(c3)
           /\ last' = Last("input", ans,
                           IF pc.at = "main" THEN os_state ELSE last.cmd_pre,
                           IF pc.at = "main" THEN Strip(ans.text) ELSE last.line, c3)

\* check_operational_mandate runs with the wall clock and the draws it is
\* given, and the process runs to its next wait.
EvalMandate(minute, day, draws, code_suffix) ==
    /\ proc.state = "running"
    /\ pc.at = "mandate"
    /\ LET c0 == [Ctx(os_state, now, trace) EXCEPT !.draws = draws]
           c1 == check_operational_mandate(c0, ClearanceOf(pc.site), minute, day)
           c2 == settle(after_mandate(c1, pc, minute, code_suffix))
       IN  /\ Commit(c2)
           /\ last' = [Last("mandate", NoAns, last.cmd_pre, last.line, c2)
                           EXCEPT !.ret = c1.ret]

Next ==
    \/ \E ans \in InputsAt("main") \cup InputsAt("prompt"), dt \in Deltas,
          ref \in Refs, cs \in CodeSuffixes :
           Answer(ans, dt, ref, cs)
    \/ \E minute \in ProgMinutes, day \in ProgDays, draws \in DrawStreams,
          cs \in CodeSuffixes :
           EvalMandate(minute, day, draws, cs)

Spec == Init /\ [][Next]_vars

----------------------------------------------------------------------------
(* The command loop over any session: the handlers take os_state as a      *)
(* parameter, and SpecSession starts the loop on each well-formed session  *)
(* record, fresh or as a successful klogin leaves it (identity set,        *)
(* authenticated, session_start_time the clock of the login, the backlog   *)
(* holding at least the BOOT and AUTH events).                             *)

SessionBacklogs ==
    {2, HIGH_FRICTION_REVIEW_THRESHOLD + 1, BACKLOG_LOCK_THRESHOLD + 1}

SessionStates ==
    {Boot.st} \cup
    {[user_id |-> u, is_authenticated |-> TRUE, session_start_time |-> StartClock,
      pending_reviews |-> b, last_command_ref |-> NoneV] :
        u \in Users, b \in SessionBacklogs}

InitSession ==
    /\ os_state \in SessionStates
    /\ now = StartClock
    /\ trace = << >>
    /\ proc = Running
    /\ pc = AtMain
    /\ last = [op |-> "boot", at |-> "none", site |-> "", ans |-> NoAns,
               pre |-> os_state, pre_now |-> StartClock, cmd_pre |-> os_state,
               line |-> << >>, out |-> "run", code |-> 0, ret |-> FALSE]

SpecSession == InitSession /\ [][Next]_vars

----------------------------------------------------------------------------
(* The engine's functions called one at a time on any session record, as a *)
(* test does: the call's SystemExit is intercepted and recorded, and the   *)
(* clock is moved between calls.                                           *)

EngineStates ==
    {[user_id |-> u, is_authenticated |-> u # NoneV,
      session_start_time |-> IF u # NoneV THEN StartClock ELSE 0,
      pending_reviews |-> b, last_command_ref |-> r] :
        u \in Users \cup {NoneV}, b \in 0..MaxBacklog, r \in {NoneV, Str("CMD-1")}}

ForwardKeys == REVIEW_ENTITY_KEYS \cup {SIR_KEY}

\* The record of a call: the function, its argument, the session record and
\* clock it ran on, how it ended, and how the call before it ended.
ELast(op, key, c) ==
    [op |-> op, key |-> key, pre |-> os_state, pre_now |-> now,
     out |-> c.out, code |-> c.code, ret |-> c.ret, exc |-> c.exc,
     prev_op |-> last.op, prev_out |-> last.out]

InitEngine ==
    /\ os_state \in EngineStates
    /\ now = StartClock
    /\ trace = << >>
    /\ proc = Running
    /\ pc = PC("harness", "", NoFrame, NoVerify, << >>)
    /\ last = [op |-> "none", key |-> "", pre |-> os_state, pre_now |-> now,
               out |-> "run", code |-> 0, ret |-> FALSE, exc |-> "",
               prev_op |-> "none", prev_out |-> "run"]

ECommit(op, key, c) ==
    /\ os_state' = c.st
    /\ now' = c.now
    /\ trace' = c.trace
    /\ last' = ELast(op, key, c)
    /\ UNCHANGED <<proc, pc>>

\* The clock moves on between two calls.
Tick(dt) ==
    /\ dt > 0
    /\ now + dt <= MaxClock
    /\ now' = now + dt
    /\ UNCHANGED <<os_state, proc, pc, trace, last>>

CallCheckTimeLimit ==
    ECommit("check_time_limit", "", call_check_time_limit(Ctx(os_state, now, << >>), 1))

CallForward(key) ==
    /\ os_state.pending_reviews < MaxBacklog
    /\ ECommit("simulate_forwarding", key, simulate_forwarding(Ctx(os_state, now, << >>), key))

CallFriction ==
    ECommit("apply_procedural_friction", "", apply_procedural_friction(Ctx(os_state, now, << >>)))

NextEngine ==
    \/ \E dt \in Deltas : Tick(dt)
    \/ CallCheckTimeLimit
    \/ \E key \in ForwardKeys : CallForward(key)
    \/ CallFriction

SpecEngine == InitEngine /\ [][NextEngine]_vars

----------------------------------------------------------------------------
(* check_operational_mandate called on any backlog, clearance, wall clock  *)
(* and stream of draws.                                                    *)

MaxMinute == 59
MandateMinutes == 0..MaxMinute
MandateDays == 0..6

\* The session records an evaluation runs on: a command reference is set
\* by the loop before any evaluation; the user is logged in or not.
MandateStates == {s \in EngineStates : s.last_command_ref # NoneV}

\* The record of an evaluation: its inputs, drawn with the initial state,
\* and, once it has run, how many draws it consumed and what it returned.
MLast(op, clearance, minute, day, draws, ndraws, ret) ==
    [op |-> op, clearance |-> clearance, minute |-> minute, day |-> day,
     draws |-> draws, ndraws |-> ndraws, pre |-> os_state, pre_now |-> now,
     out |-> "run", ret |-> ret]

InitMandate ==
    /\ os_state \in MandateStates
    /\ now = StartClock
    /\ trace = << >>
    /\ proc = Running
    /\ pc = PC("harness", "", NoFrame, NoVerify, << >>)
    /\ \E clearance \in Clearances, minute \in MandateMinutes, day \in MandateDays,
          draws \in DrawStreams :
           last = MLast("none", clearance, minute, day, draws, 0, FALSE)

CallMandate ==
    /\ last.op = "none"
    /\ LET c == check_operational_mandate(
                    [Ctx(os_state, now, << >>) EXCEPT !.draws = last.draws],
                    last.clearance, last.minute, last.day)
       IN  /\ os_state' = c.st
           /\ trace' = c.trace
           /\ last' = [MLast("check_operational_mandate", last.clearance, last.minute,
                             last.day, last.draws, Len(last.draws) - Len(c.draws), c.ret)
                           EXCEPT !.out = c.out]
           /\ UNCHANGED <<now, proc, pc>>

NextMandate == CallMandate

SpecMandate == InitMandate /\ [][NextMandate]_vars

----------------------------------------------------------------------------
(* check_operational_mandate called twice at the same wall clock, each     *)
(* call with its own stream of draws.                                      *)

\* The record of the later evaluation, with the result, session record and
\* draws of the one before it.
PLast(op, clearance, minute, day, draws, pre, ret, prev_ret, prev_pre, prev_draws) ==
    [op |-> op, clearance |-> clearance, minute |-> minute, day |-> day,
     draws |-> draws, pre |-> pre, ret |-> ret,
     prev_ret |-> prev_ret, prev_pre |-> prev_pre, prev_draws |-> prev_draws]

InitMandatePair ==
    /\ os_state \in MandateStates
    /\ now = StartClock
    /\ trace = << >>
    /\ proc = Running
    /\ pc = PC("harness", "", NoFrame, NoVerify, << >>)
    /\ \E clearance \in Clearances, minute \in ProgMinutes, day \in ProgDays,
          draws \in DrawStreams :
           last = PLast("none", clearance, minute, day, draws, os_state, FALSE,
                        FALSE, os_state, draws)

EvalFirst ==
    /\ last.op = "none"
    /\ LET c == check_operational_mandate(
                    [Ctx(os_state, now, << >>) EXCEPT !.draws = last.draws],
                    last.clearance, last.minute, last.day)
       IN  /\ os_state' = c.st
           /\ trace' = c.trace
           /\ last' = PLast("first", last.clearance, last.minute, last.day,
                            last.draws, os_state, c.ret, FALSE, os_state, last.draws)
           /\ UNCHANGED <<now, proc, pc>>

EvalSecond(draws) ==
    /\ last.op = "first"
    /\ LET c == check_operational_mandate(
                    [Ctx(os_state, now, << >>) EXCEPT !.draws = draws],
                    last.clearance, last.minute, last.day)
       IN  /\ os_state' = c.st
           /\ trace' = c.trace
           /\ last' = PLast("second", last.clearance, last.minute, last.day,
                            draws, os_state, c.ret, last.ret, last.pre, last.draws)
           /\ UNCHANGED <<now, proc, pc>>

NextMandatePair ==
    \/ EvalFirst
    \/ \E draws \in DrawStreams : EvalSecond(draws)

SpecMandatePair == InitMandatePair /\ [][NextMandatePair]_vars

----------------------------------------------------------------------------
(* verify_action_intent, and the handlers that call it, run to their       *)
(* return on answers fixed beforehand, as a caller with a scripted         *)
(* get_input_func runs them.                                               *)

\* Command lines that pass their handler's flag and purpose validation.
PrivilegedLines ==
    { <<"kls", WS, "-", "-", "view-mode", "=", "audit", WS,
        "-", "-", "purpose", "=", "FS-QUERY-7701">>,
      <<"kls", WS, "-", "-", "view-mode", "=", "standard", WS,
        "-", "-", "purpose", "=", "FS-QUERY-7701">>,
      <<"kls", WS, "-", "-", "view-mode", "=", "audit", WS,
        "-", "p", WS, "FS-QUERY-7701">>,
      <<"kls", WS, "-", "-", "view-mode", "=", "standard", WS,
        "-", "p", WS, "FS-QUERY-7701">>,
      <<"kexec", WS, "prog", WS, "-", "-", "purpose", "=", "PROC-EXEC-8804">>,
      <<"kstatus", WS, "-", "c", WS, "-", "-", "purpose", "=", "SYS-HEALTH-0101">>,
      <<"khalt", WS, "-", "-", "auth-code", "=", "HALT_SYS_MOD_", "07", "3">> }

\* The frame the loop builds of a command line that is not a ./program.
frame_of(full_command_line) ==
    LET parts == Split(full_command_line)
        command_name_raw == parts[1]
        pa == parse_args(Tail(parts))
    IN  Frame(COMMANDS(LowerStr(command_name_raw)), command_name_raw,
              pa.args, pa.positional)

Unblocked(c) == Ctx(c.st, c.now, c.trace)

\* verify_action_intent(os_state, caller, get_input_func, ...) to its return.
run_verify(c, v, confirm, re_auth_id) ==
    LET c1 == verify_start(c, NoFrame, v)
        g1 == get_user_input(Unblocked(c1), Line(confirm))
        c2 == IF c1.out = "run" /\ c1.blk.at = "verify_confirm"
              THEN IF Live(g1) THEN verify_confirm(g1, NoFrame, v, g1.inp) ELSE g1
              ELSE c1
        g2 == get_user_input(Unblocked(c2), Line(re_auth_id))
    IN  IF c2.out = "run" /\ c2.blk.at = "verify_reauth"
        THEN IF Live(g2) THEN verify_reauth(g2, NoFrame, v, g2.inp) ELSE g2
        ELSE c2

\* A handler waiting for its mandate evaluation gets it, with the draws.
handler_mandate(c, minute, day, draws, code_suffix) ==
    IF c.out = "run" /\ c.blk.at = "mandate"
    THEN after_mandate(
             check_operational_mandate([Unblocked(c) EXCEPT !.draws = draws],
                                       ClearanceOf(c.blk.site), minute, day),
             c.blk, minute, code_suffix)
    ELSE c

\* A handler waiting at the prompt `at` gets its answer.
handler_answer(c, at, text, code_suffix) ==
    IF c.out = "run" /\ c.blk.at = at
    THEN LET g == get_user_input(Unblocked(c), Line(text))
         IN  IF Live(g) THEN resume(g, c.blk, g.inp, "CMD-1", code_suffix) ELSE g
    ELSE c

ConfirmAnswers == {CONFIRMATION_PHRASE, Str("i_acknowledge"), << >>}

\* The record of a call: what was called, with which arguments, answers,
\* wall clock and draws, on which session record, and how it ended.
VLast(op, v, line, confirm, re_auth_id, minute, draws, c) ==
    [op |-> op, v |-> v, line |-> line, confirm |-> confirm,
     re_auth_id |-> re_auth_id, minute |-> minute, draws |-> draws,
     pre |-> os_state, out |-> c.out, ret |-> c.ret, exc |-> c.exc]

InitVerify ==
    /\ os_state \in MandateStates
    /\ now = StartClock
    /\ trace = << >>
    /\ proc = Running
    /\ pc = PC("harness", "", NoFrame, NoVerify, << >>)
    /\ \E confirm \in ConfirmAnswers, re_auth_id \in {Str("alice"), Str("bob")} :
          \/ \E v \in {VerifyArgs("test", rp, rr) : rp \in BOOLEAN, rr \in BOOLEAN} :
                last = VLast("to verify", v, << >>, confirm, re_auth_id,
                             0, << >>, Ctx(os_state, now, << >>))
          \/ \E line \in PrivilegedLines, minute \in ProgMinutes, draws \in DrawStreams :
                last = VLast("to handle", NoVerify, line, confirm, re_auth_id,
                             minute, draws, Ctx(os_state, now, << >>))

VCommit(op, c) ==
    /\ os_state' = c.st
    /\ trace' = c.trace
    /\ last' = [last EXCEPT !.op = op, !.out = c.out, !.ret = c.ret, !.exc = c.exc]
    /\ UNCHANGED <<now, proc, pc>>

CallVerify ==
    /\ last.op = "to verify"
    /\ VCommit("verify_action_intent",
               run_verify(Ctx(os_state, now, << >>), last.v, last.confirm, last.re_auth_id))

CallHandler ==
    /\ last.op = "to handle"
    /\ \E cs \in CodeSuffixes, day \in ProgDays :
       \E c1 \in {call_handler(Ctx(os_state, now, << >>), frame_of(last.line), cs)} :
       \E c2 \in {handler_mandate(c1, last.minute, day, last.draws, cs)} :
       \E c3 \in {handler_answer(c2, "verify_confirm", last.confirm, cs)} :
       \E c4 \in {handler_answer(c3, "verify_reauth", last.re_auth_id, cs)} :
           VCommit("handler", c4)

NextVerify ==
    \/ CallVerify
    \/ CallHandler

SpecVerify == InitVerify /\ [][NextVerify]_vars

----------------------------------------------------------------------------
(* kos_rejection: the circular rejection protocol.  The text of the module *)
(* does not compile (an `else:` at line 93 follows statements at function  *)
(* indentation), so importing it raises before any of it runs; no module   *)
(* of the program imports it.  The body is modelled statement by statement *)
(* as the text reads, behind the import.                                   *)

MAX_VERIFICATION_CYCLES == 3

import_kos_rejection(c) ==
    Raise(c, "IndentationError: unexpected indent (kos_rejection.py, line 93)")

\* " ".join(positional_args)
RECURSIVE JoinArgs(_)
JoinArgs(positional_args) ==
    IF positional_args = << >> THEN << >>
    ELSE IF Len(positional_args) = 1 THEN positional_args[1]
    ELSE positional_args[1] \o <<WS>> \o JoinArgs(Tail(positional_args))

\* Codes that start with GJC- and split at '-' into three parts.
GammaCodes == {Str("GJC-0001-0002")}

\* One verification cycle: budget check, two prompts, friction.
rejection_cycle(c, original, reconfirm, justification) ==
    LET c1 == check_time(Emit(c, "cycle", "start"))
        g1 == get_user_input(c1, Line(reconfirm))
        c2 == IF g1.inp # original THEN Emit(g1, "reconfirm", "fail")
              ELSE perform_simulated_check(Emit(g1, "reconfirm", "ok"))
        g2 == get_user_input(c2, Line(justification))
        c3 == IF g2.inp \notin GammaCodes THEN Emit(g2, "justification", "format")
              ELSE Emit(g2, "justification", "caam")
    IN  IF ~Live(c1) THEN c1
        ELSE IF ~Live(g1) THEN g1
        ELSE IF ~Live(g2) THEN g2
        ELSE apply_procedural_friction(Emit(c3, "cycle", "fail"))

\* for cycle in range(MAX_VERIFICATION_CYCLES), from cycle on.
RECURSIVE rejection_cycles(_, _, _, _, _)
rejection_cycles(c, cycle, original, reconfirm, justification) ==
    IF cycle >= MAX_VERIFICATION_CYCLES \/ ~Live(c) THEN c
    ELSE rejection_cycles(rejection_cycle(c, original, reconfirm, justification),
                          cycle + 1, original, reconfirm, justification)

handle_rejected_command(c, command_name, positional_args, reconfirm, justification) ==
    LET c1 == check_time(Emit(c, "rejected", "RP-LNX-1"))
        c2 == apply_procedural_friction(Emit(c1, "reason", "random"))
        original_command_line == command_name \o <<WS>> \o JoinArgs(positional_args)
        c3 == rejection_cycles(c2, 0, original_command_line, reconfirm, justification)
    IN  IF ~Live(c1) THEN c1
        ELSE IF ~Live(c3) THEN c3
        ELSE \* 3. Final accusation and reporting.
             Emit(simulate_forwarding(Emit(c3, "accuse", "VERIF_FAIL"), SIR_KEY),
                  "denied", "non-native")

----------------------------------------------------------------------------
(* handle_rejected_command called, as a caller that imports kos_rejection  *)
(* would, on any session record, with the answers to its prompts fixed     *)
(* beforehand.                                                             *)

\* The record of a call: the command, its arguments, the answers, the
\* session record it was called on, and how it ended.
RLast(op, command_name, positional_args, reconfirm, justification, c) ==
    [op |-> op, command_name |-> command_name, positional_args |-> positional_args,
     reconfirm |-> reconfirm, justification |-> justification,
     pre |-> os_state, out |-> c.out, exc |-> c.exc]

InitRejection ==
    /\ os_state \in EngineStates
    /\ now = StartClock
    /\ trace = << >>
    /\ proc = Running
    /\ pc = PC("harness", "", NoFrame, NoVerify, << >>)
    /\ \E command_name \in {Str("rm"), Str("foo")},
          positional_args \in {<< >>, <<Str("x")>>},
          reconfirm \in {<<"rm", WS, "x">>, Str("rm"), << >>},
          justification \in GammaCodes \cup {Str("because"), << >>} :
          last = RLast("to reject", command_name, positional_args, reconfirm,
                       justification, Ctx(os_state, now, << >>))

CallRejected ==
    /\ last.op = "to reject"
    /\ \E m \in {import_kos_rejection(Ctx(os_state, now, << >>))} :
       \E c \in {IF Live(m)
                 THEN handle_rejected_command(m, last.command_name, last.positional_args,
                                              last.reconfirm, last.justification)
                 ELSE m} :
          /\ os_state' = c.st
          /\ trace' = c.trace
          /\ last' = [last EXCEPT !.op = "handle_rejected_command",
                                  !.out = c.out, !.exc = c.exc]
          /\ UNCHANGED <<now, proc, pc>>

NextRejection == CallRejected

SpecRejection == InitRejection /\ [][NextRejection]_vars

----------------------------------------------------------------------------
(* Properties.                                                             *)

HasEv(k, v) == \E i \in 1..Len(trace) : trace[i] = Ev(k, v)

\* The session's budget is spent at the current clock.
BudgetExhausted ==
    os_state.session_start_time # 0 /\ Elapsed(os_state, now) > TIME_LIMIT_SECONDS

\* C1. Budget monotonicity: once the elapsed time of an authenticated
\* session exceeds the quantum it stays exceeded as the clock moves on, and
\* every budget check made from then on terminates the process with the
\* budget status; none returns normally.
C1_BudgetMonotonicity ==
    [][BudgetExhausted =>
          /\ BudgetExhausted'
          /\ CallCheckTimeLimit => (last'.out = "exit" /\ last'.code = EXIT_TIMEOUT)]_vars

\* Two budget checks in a row made after exhaustion, both terminating.
C1_Witness ==
    /\ os_state.is_authenticated
    /\ last.op = "check_time_limit" /\ last.out = "exit"
    /\ last.prev_op = "check_time_limit" /\ last.prev_out = "exit"

\* C2. The budget check terminates the process if and only if sessionStart
\* is set and elapsed > QUANTUM; with sessionStart unset it returns whatever
\* the clock reads; the process's termination status is then 2, not the
\* status 0 of a normal or forced shutdown.
C2_BudgetExitStatus ==
    /\ (proc.state = "running" /\ pc.at = "main") => ~BudgetExhausted
    /\ (proc.state = "exited" /\ proc.code = EXIT_TIMEOUT) =>
           (BudgetExhausted /\ proc.status = EXIT_TIMEOUT /\ proc.status # EXIT_HALT)
    /\ (proc.state = "exited" /\ HasEv("fwd", "SHUTDOWN")) =>
           (proc.code = EXIT_HALT /\ proc.status = EXIT_HALT)

\* C3. Budget exhaustion is propagated unconditionally: a budget check made
\* in a handler or in verify with the budget exceeded is not caught by the
\* dispatch loop's error handler; it ends the process then and there.
C3_ExhaustionNotCaught ==
    \A i \in 1..Len(trace) :
        (trace[i] = Ev("check_time", "handler") /\ BudgetExhausted) =>
            /\ i + 2 <= Len(trace)
            /\ trace[i + 1].k = "budget"
            /\ trace[i + 2] = Ev("exit", ToString(EXIT_TIMEOUT))
            /\ ~HasEv("caught", "TypeError: check_time_limit()")

\* C4. The engine raises no runtime error that the dispatch boundary
\* catches: a budget check called by a handler or by verify returns or
\* terminates the process.
C4_NoEngineRuntimeError ==
    /\ ~HasEv("raise", "TypeError: check_time_limit()")
    /\ ~HasEv("caught", "TypeError: check_time_limit()")

\* C5. End-to-end login: a klogin command from an unauthenticated state
\* that is not refused for its input (empty username, malformed MFA token)
\* and is not cut short by end of input ends authenticated, with the
\* identity and sessionStart set and the backlog one higher.
C5_EndToEndLogin ==
    (/\ pc.at = "main"
     /\ HasEv("handler", "handle_login")
     /\ ~last.cmd_pre.is_authenticated
     /\ \A i \in 1..Len(trace) : trace[i].k # "abort") =>
        /\ os_state.is_authenticated
        /\ os_state.user_id # NoneV
        /\ os_state.session_start_time # 0
        /\ os_state.pending_reviews = last.cmd_pre.pending_reviews + 1

\* C6. Between operations (at the main prompt, and once a shutdown handler
\* has run) authenticated is true if and only if identity is set.
C6_AuthIffIdentity ==
    pc.at \in {"main", "halted"} =>
        (os_state.is_authenticated <=> os_state.user_id # NoneV)

\* C7, as stated. sessionStart is set if and only if the session is
\* authenticated, in every state.
C7_StartIffAuthenticated ==
    os_state.session_start_time # 0 <=> os_state.is_authenticated

\* C7, amended. While the process runs sessionStart is set if and only if
\* the session is authenticated; it changes only when a login succeeds (to
\* the clock of that moment, from unset) and when a logout completes (to
\* unset), so a klogin issued while authenticated does not re-assign it.
C7_StartIffAuthenticatedWhileRunning ==
    /\ [](proc.state = "running" => C7_StartIffAuthenticated)
    /\ [][os_state'.session_start_time # os_state.session_start_time =>
             \/ /\ os_state'.session_start_time = 0
                /\ \E i \in 1..Len(trace') : trace'[i] = Ev("logout", "ok")
             \/ /\ os_state.session_start_time = 0
                /\ os_state'.session_start_time = now'
                /\ \E i \in 1..Len(trace') : trace'[i] = Ev("login", "ok")]_vars

\* A logout has completed on a session whose sessionStart was set.
C7_Witness ==
    /\ proc.state = "running" /\ pc.at = "main"
    /\ HasEv("logout", "ok")
    /\ last.cmd_pre.session_start_time # 0
    /\ os_state.session_start_time = 0 /\ ~os_state.is_authenticated

\* C8. Backlog monotonicity: no step of any command decreases or resets
\* the backlog counter.
C8_BacklogMonotonic ==
    [][os_state'.pending_reviews >= os_state.pending_reviews]_vars

\* A logout that completed after a mandate evaluation, the backlog grown.
C8_Witness ==
    /\ pc.at = "main"
    /\ HasEv("logout", "ok")
    /\ HasEv("mandate", "STANDARD")
    /\ os_state.pending_reviews > last.cmd_pre.pending_reviews

\* C9. A call to forward succeeds for every category tag, in the reviewer
\* table or not, adds exactly 1 to the backlog and leaves identity,
\* authenticated, sessionStart and lastCommandRef as they were.
C9_ForwardFrame ==
    last.op = "simulate_forwarding" =>
        /\ last.out = "run"
        /\ os_state.pending_reviews = last.pre.pending_reviews + 1
        /\ os_state.user_id = last.pre.user_id
        /\ os_state.is_authenticated = last.pre.is_authenticated
        /\ os_state.session_start_time = last.pre.session_start_time
        /\ os_state.last_command_ref = last.pre.last_command_ref

\* A forward of a tag outside the reviewer table, in an authenticated
\* session with a command reference.
C9_Witness ==
    /\ last.op = "simulate_forwarding"
    /\ last.key \notin REVIEW_ENTITY_KEYS
    /\ os_state.is_authenticated
    /\ os_state.last_command_ref # NoneV

\* A number is prime when it is above 1 and no smaller number above 1
\* divides it.
Prime(n) == n > 1 /\ \A d \in 2..(n - 1) : n % d # 0

\* The three rules on the inputs of an evaluation m.  The lockout rule
\* draws only above the backlog threshold; the spot check takes the draw
\* after it.
Rule1Denies(m) ==
    /\ m.clearance = "FILESYSTEM"
    /\ m.day = LOCKOUT_PRIME_MINUTE_FILESYSTEM_DAY
    /\ Prime(m.minute)
LockoutDraws(m) == m.pre.pending_reviews > BACKLOG_LOCK_THRESHOLD
Rule2Denies(m) == LockoutDraws(m) /\ m.draws[1] < BACKLOG_LOCK_CHANCE
Rule3Denies(m) ==
    (IF LockoutDraws(m) THEN m.draws[2] ELSE m.draws[1]) < LOCKOUT_RANDOM_FAILURE_CHANCE

\* C10. The mandate decision is the first-denial-wins evaluation of the
\* three rules in order; a backlog of exactly 10 never triggers the lockout
\* rule; a rule after the first denying rule consumes no draw.
C10_MandateDecision ==
    last.op = "check_operational_mandate" =>
        /\ last.ret = ~(Rule1Denies(last) \/ Rule2Denies(last) \/ Rule3Denies(last))
        /\ HasEv("deny", "FS-PRIME") <=> Rule1Denies(last)
        /\ HasEv("deny", "BACKLOG") <=> (~Rule1Denies(last) /\ Rule2Denies(last))
        /\ HasEv("deny", "SPOTCHECK") <=>
               (~Rule1Denies(last) /\ ~Rule2Denies(last) /\ Rule3Denies(last))
        /\ last.ndraws = IF Rule1Denies(last) THEN 0
                         ELSE IF ~LockoutDraws(last) THEN 1
                         ELSE IF Rule2Denies(last) THEN 1 ELSE 2
        /\ CountKind(trace, "draw") = last.ndraws

\* An evaluation at a backlog of exactly 10 with a first draw under the
\* lockout chance, allowed.
C10_Witness ==
    /\ last.op = "check_operational_mandate"
    /\ last.pre.pending_reviews = BACKLOG_LOCK_THRESHOLD
    /\ last.draws[1] < BACKLOG_LOCK_CHANCE
    /\ last.ret = TRUE

\* C11. Mandate rule 1: for clearance FILESYSTEM on the fixed weekday the
\* rule denies if and only if the minute is a prime number, for every
\* minute 0..59 (7 denies; 0, 1 and 4 do not); for any other clearance or
\* weekday rule 1 never denies.
C11_PrimeMinuteRule ==
    last.op = "check_operational_mandate" =>
        /\ HasEv("deny", "FS-PRIME") <=>
               /\ last.clearance = "FILESYSTEM"
               /\ last.day = LOCKOUT_PRIME_MINUTE_FILESYSTEM_DAY
               /\ Prime(last.minute)
        /\ HasEv("deny", "FS-PRIME") => last.ret = FALSE
        /\ (/\ last.clearance = "FILESYSTEM"
            /\ last.day = LOCKOUT_PRIME_MINUTE_FILESYSTEM_DAY) =>
               /\ last.minute = 7 => HasEv("deny", "FS-PRIME")
               /\ last.minute \in {0, 1, 4} => ~HasEv("deny", "FS-PRIME")

\* A filesystem evaluation on the fixed weekday at a composite minute that
\* is a square (49), which rule 1 lets through to an allow.
C11_Witness ==
    /\ last.op = "check_operational_mandate"
    /\ last.clearance = "FILESYSTEM"
    /\ last.day = LOCKOUT_PRIME_MINUTE_FILESYSTEM_DAY
    /\ last.minute = 49
    /\ ~HasEv("deny", "FS-PRIME")
    /\ last.ret = TRUE


\* C12. Every mandate evaluation that returns deny raises exactly one
\* ARBITRARY_LOCKOUT forwarding event before it returns (backlog + 1), every
\* evaluation that returns allow raises none (backlog unchanged), and no
\* other session field changes in either case.
C12_DenialForwardsOnce ==
    last.op = "check_operational_mandate" =>
        /\ CountEv(trace, "fwd", "ARBITRARY_LOCKOUT") = (IF last.ret THEN 0 ELSE 1)
        /\ CountKind(trace, "fwd") = CountEv(trace, "fwd", "ARBITRARY_LOCKOUT")
        /\ os_state.pending_reviews =
               last.pre.pending_reviews + (IF last.ret THEN 0 ELSE 1)
        /\ os_state.user_id = last.pre.user_id
        /\ os_state.is_authenticated = last.pre.is_authenticated
        /\ os_state.session_start_time = last.pre.session_start_time
        /\ os_state.last_command_ref = last.pre.last_command_ref
        /\ last.out = "run"

\* A denial by the spot check in an authenticated session, its one event
\* forwarded.
C12_Witness ==
    /\ last.op = "check_operational_mandate"
    /\ last.pre.is_authenticated
    /\ last.ret = FALSE
    /\ HasEv("deny", "SPOTCHECK")
    /\ HasEv("fwd", "ARBITRARY_LOCKOUT")
    /\ os_state.pending_reviews = last.pre.pending_reviews + 1


\* The decision of an evaluation made now, on the recorded clearance and
\* wall clock, with the stream of draws d.
MandateDecision(d) ==
    check_operational_mandate([Ctx(os_state, now, << >>) EXCEPT !.draws = d],
                              last.clearance, last.minute, last.day).ret

\* C13. Mandate independence: at one time, backlog and clearance (rule 1
\* not denying) two streams of draws give different decisions, so the
\* decision is not a function of (time, backlog, clearance) alone; and the
\* second of two evaluations decides on its own draws and backlog, whatever
\* the first decided.
C13_MandateIndependence ==
    /\ ~Rule1Denies(last) =>
           \E d1 \in DrawStreams, d2 \in DrawStreams :
               MandateDecision(d1) # MandateDecision(d2)
    /\ last.op = "second" =>
           last.ret = ~(Rule1Denies(last) \/ Rule2Denies(last) \/ Rule3Denies(last))

\* Two evaluations at the same time, backlog and clearance: the first
\* allowed, the second, on other draws, denied.
C13_Witness ==
    /\ last.op = "second"
    /\ last.pre = last.prev_pre
    /\ last.draws # last.prev_draws
    /\ last.prev_ret = TRUE
    /\ last.ret = FALSE


\* The forwarding events of the categories verify raises.
Forwards(key) == CountEv(trace, "fwd", key)

\* C14. Verification is terminal on first failure: with a confirmation
\* phrase that does not match, verify returns false with no purpose step,
\* no re-authentication step and no PURPOSE_VALIDATION, RE_AUTH or
\* CMD_INTENT event; with a failed purpose validation it returns false with
\* no RE_AUTH and no CMD_INTENT event.
C14_VerifyShortCircuit ==
    last.op = "verify_action_intent" =>
        /\ Strip(last.confirm) # CONFIRMATION_PHRASE =>
               /\ last.out = "run" /\ last.ret = FALSE
               /\ ~HasEv("reauth", "ok") /\ ~HasEv("reauth", "fail")
               /\ Forwards("PURPOSE_VALIDATION") = 0
               /\ Forwards("RE_AUTH") = 0
               /\ Forwards("CMD_INTENT") = 0
        /\ HasEv("purpose", "fail") =>
               /\ last.out = "run" /\ last.ret = FALSE
               /\ Forwards("RE_AUTH") = 0
               /\ Forwards("CMD_INTENT") = 0

\* Every step verify requires passes on the recorded answers (the purpose
\* validation, a simulated check, always succeeds).
AllStepsPass ==
    /\ Strip(last.confirm) = CONFIRMATION_PHRASE
    /\ \/ ~last.v.requires_reauth
       \/ ~last.pre.is_authenticated
       \/ Strip(last.re_auth_id) = last.pre.user_id

\* C15. verify returns true if and only if every required step passes;
\* exactly one CMD_INTENT event is raised, as the last event, exactly when
\* it returns true.
C15_VerifyConjunction ==
    last.op = "verify_action_intent" =>
        /\ last.out = "run"
        /\ last.ret <=> AllStepsPass
        /\ Forwards("CMD_INTENT") = (IF last.ret THEN 1 ELSE 0)
        /\ last.ret => trace[Len(trace) - 1] = Ev("fwd", "CMD_INTENT")

\* C16. The re-authentication step runs only when requiresReauth is set and
\* the session is authenticated; a re-entered identity that differs makes
\* verify return false after exactly one RE_AUTH failure event, and a
\* matching one raises exactly one RE_AUTH success event and lets the
\* protocol complete.
C16_Reauthentication ==
    (last.op = "verify_action_intent" /\ Strip(last.confirm) = CONFIRMATION_PHRASE) =>
        IF last.v.requires_reauth /\ last.pre.is_authenticated
        THEN /\ last.out = "run"
             /\ Forwards("RE_AUTH") = 1
             /\ IF Strip(last.re_auth_id) = last.pre.user_id
                THEN HasEv("reauth", "ok") /\ last.ret = TRUE
                     /\ Forwards("CMD_INTENT") = 1
                ELSE HasEv("reauth", "fail") /\ last.ret = FALSE
                     /\ Forwards("CMD_INTENT") = 0
        ELSE /\ Forwards("RE_AUTH") = 0
             /\ ~HasEv("reauth", "ok") /\ ~HasEv("reauth", "fail")

\* The events that record a command's execution.
ExecutionKeys == {"FS_ACCESS", "PROC_LAUNCH", "CMD_EXEC", "STATUS_QUERY", "SHUTDOWN"}

\* The answers recorded for a handler call fail the verification the
\* handler asks for: kexec and khalt ask for re-authentication, kls and
\* kstatus do not.
HandlerAnswersFail ==
    \/ Strip(last.confirm) # CONFIRMATION_PHRASE
    \/ /\ frame_of(last.line).cmd \in {"handle_exec", "handle_shutdown"}
       /\ Strip(last.re_auth_id) # last.pre.user_id

C18_RejectionRunsAllCycles ==
    last.op = "handle_rejected_command" =>
        /\ last.out = "run"
        /\ CountEv(trace, "cycle", "start") = MAX_VERIFICATION_CYCLES
        /\ CountEv(trace, "cycle", "fail") = MAX_VERIFICATION_CYCLES
        /\ \A i \in 1..Len(trace) :
               trace[i] = Ev("cycle", "fail") =>
                   i < Len(trace) /\ trace[i + 1].k = "friction"
        /\ Forwards(SIR_KEY) = 1
        /\ \A key \in ExecutionKeys : Forwards(key) = 0

\* C19. The rejection protocol mutates only the backlog, which rises by
\* exactly one (the terminal event); identity, authenticated and
\* sessionStart are unchanged.
C19_RejectionBacklogOnly ==
    last.op = "handle_rejected_command" =>
        /\ os_state.pending_reviews = last.pre.pending_reviews + 1
        /\ os_state.user_id = last.pre.user_id
        /\ os_state.is_authenticated = last.pre.is_authenticated
        /\ os_state.session_start_time = last.pre.session_start_time

\* C20. Every command line whose first token is not a recognized command
\* is routed by the dispatch loop through the rejection protocol (terminal
\* security-incident event, backlog one higher), after which the loop
\* continues at its prompt.
C20_UnknownCommandRejected ==
    (/\ last.op = "input" /\ last.at = "main" /\ last.ans.kind = "line"
     /\ last.line # << >>
     /\ COMMANDS(LowerStr(Split(last.line)[1])) = "none"
     /\ ~StartsWith(Split(last.line)[1], <<"./">>)
     /\ proc.state = "running") =>
        /\ pc.at = "main"
        /\ HasEv("fwd", SIR_KEY)
        /\ os_state.pending_reviews = last.cmd_pre.pending_reviews + 1


\* C21. The login, help and shutdown commands (klogin, help, khalt,
\* shutdown, exit) are never put to a mandate evaluation by the dispatch
\* loop, however the token is capitalised; every other recognized command
\* is evaluated before its handler runs.
C21_ExemptCommandsSkipMandate ==
    /\ (pc.at = "mandate" /\ pc.site = "dispatch") =>
           LowerStr(pc.f.raw) \notin MANDATE_EXEMPT
    /\ (/\ last.op = "input" /\ last.at = "main" /\ last.ans.kind = "line"
        /\ \E i \in 1..Len(trace) : trace[i].k = "handler") =>
           LowerStr(Split(last.line)[1]) \in MANDATE_EXEMPT


\* A command of the current iteration failed in a recoverable way: denied
\* by the mandate at dispatch, wrong confirmation phrase, wrong purpose
\* code, or verification returned false.
RecoverableFailure ==
    \/ HasEv("continue", "mandate")
    \/ HasEv("confirm", "fail")
    \/ HasEv("abort", "purpose")
    \/ HasEv("abort", "verify")

\* C22. A recoverable command-local failure aborts only that command: no
\* execution event is raised, identity, authenticated and sessionStart are
\* as they were when the command was read, and the process stays running
\* at the main prompt (unless the budget check at the top of the loop finds
\* the budget spent).
C22_RecoverableFailureAbortsCommand ==
    RecoverableFailure =>
        /\ \A key \in ExecutionKeys : Forwards(key) = 0
        /\ os_state.user_id = last.cmd_pre.user_id
        /\ os_state.is_authenticated = last.cmd_pre.is_authenticated
        /\ os_state.session_start_time = last.cmd_pre.session_start_time
        /\ IF proc.state = "running" THEN pc.at = "main"
           ELSE proc.code = EXIT_TIMEOUT /\ BudgetExhausted

C22_Witness ==
    /\ HasEv("continue", "mandate")
    /\ HasEv("fwd", "ARBITRARY_LOCKOUT")
    /\ last.cmd_pre.is_authenticated
    /\ proc.state = "running" /\ pc.at = "main"


\* C23. End-of-input at any prompt (the main prompt or a prompt of a
\* handler) triggers a forced shutdown: exactly one SHUTDOWN event is
\* raised, the process terminates with status 0 whether or not the session
\* is authenticated, and nothing more is processed.
C23_EndOfInputHalts ==
    (last.op = "input" /\ last.ans.kind = "eof") =>
        /\ Forwards("SHUTDOWN") = 1
        /\ os_state.pending_reviews = last.pre.pending_reviews + 1
        /\ proc = Exited(EXIT_HALT, 0)
        /\ pc = Halted
        /\ ~ENABLED Next

C23_Witness ==
    /\ last.op = "input" /\ last.ans.kind = "eof"
    /\ last.at = "logout_confirm"
    /\ last.pre.is_authenticated
    /\ proc.state = "exited"
    /\ Forwards("SHUTDOWN") = 1

C23_WitnessUnauthenticated ==
    /\ last.op = "input" /\ last.ans.kind = "eof"
    /\ last.at = "main"
    /\ ~last.pre.is_authenticated
    /\ proc.state = "exited"


PrivilegedDenied ==
    /\ \/ HasEv("handler", "handle_ls")
       \/ HasEv("handler", "handle_exec")
       \/ HasEv("handler", "handle_status")
    /\ \E i \in 1..Len(trace) :
          /\ trace[i].k = "abort"
          /\ trace[i].v \in {"unauthenticated", "view-mode", "purpose", "program",
                             "packet-id", "compliance-check"}

\* C25. Each privileged-command success, each privileged-command denial,
\* each mandate denial, each verification success and each verification
\* failure raises exactly one forwarding event (backlog + 1 for that
\* outcome), tagged with a category of the fixed enumeration: every event
\* carries a category of the table, every mandate denial has its event,
\* and a privileged command that is denied has one event of its own.
C25_OneEventPerOutcome ==
    /\ \A i \in 1..Len(trace) :
           trace[i].k = "fwd" => trace[i].v \in REVIEW_ENTITY_KEYS
    /\ CountKind(trace, "deny") = Forwards("ARBITRARY_LOCKOUT")
    /\ PrivilegedDenied =>
           /\ CountKind(trace, "fwd") = CountKind(trace, "deny") + 1
           /\ os_state.pending_reviews =
                  last.cmd_pre.pending_reviews + CountKind(trace, "deny") + 1


\* The handlers of the privileged commands.
PrivilegedHandlers == {"handle_ls", "handle_exec", "handle_status"}

\* C26. A privileged command (kls, kexec, kstatus) raises FS_ACCESS,
\* PROC_LAUNCH, CMD_EXEC or STATUS_QUERY only if the session is
\* authenticated and verify returned true for that command (its closing
\* CMD_INTENT event precedes them); in an unauthenticated session the
\* handler returns having raised none of them and changed no state.
C26_ExecutionNeedsVerification ==
    (last.op = "handler" /\ frame_of(last.line).cmd \in PrivilegedHandlers) =>
        /\ \A i \in 1..Len(trace) :
               (trace[i].k = "fwd" /\ trace[i].v \in ExecutionKeys) =>
                   /\ last.pre.is_authenticated
                   /\ \E j \in 1..(i - 1) : trace[j] = Ev("fwd", "CMD_INTENT")
        /\ ~last.pre.is_authenticated =>
               /\ last.out = "run"
               /\ os_state = last.pre
               /\ CountKind(trace, "fwd") = 0

C26_Witness ==
    /\ last.op = "handler"
    /\ frame_of(last.line).cmd = "handle_exec"
    /\ ~last.pre.is_authenticated
    /\ HasEv("abort", "unauthenticated")
    /\ os_state = last.pre


\* A budget check was made before event i of the iteration with no wait
\* for input between the check and the event.
CheckedSinceWait(i) ==
    \E j \in 1..(i - 1) :
        /\ trace[j].k = "check_time"
        /\ \A m \in j..i : trace[m].k # "prompt"

\* C27. A budget check is performed before authentication, before every
\* mandate evaluation (the one of the dispatch loop included) and once per
\* idle loop iteration; no mandate evaluation runs after a wait for input
\* without a budget check in between.
C27_BudgetCheckPlacement ==
    /\ \A i \in 1..Len(trace) :
           trace[i].k = "mandate" => CheckedSinceWait(i)
    /\ \A i \in 1..Len(trace) :
           (/\ trace[i] = Ev("handler", "handle_login")
            /\ i < Len(trace)
            /\ trace[i + 1] # Ev("abort", "already authenticated")) =>
               trace[i + 1].k = "check_time"
    /\ (proc.state = "running" /\ pc.at = "main" /\ trace # << >>) =>
           HasEv("check_time", "idle")


\* C28. Friction performs its additional delay step if and only if the
\* backlog is above 5 (a backlog of exactly 5 adds none) and modifies no
\* session field, whether or not the delay step is taken.
C28_FrictionThreshold ==
    last.op = "apply_procedural_friction" =>
        /\ last.out = "run"
        /\ HasEv("friction", "delay") <=> last.pre.pending_reviews > 5
        /\ HasEv("friction", "none") <=> last.pre.pending_reviews <= 5
        /\ os_state = last.pre

\* Friction at a backlog of exactly 5: no delay step.
C28_Witness ==
    /\ last.op = "apply_procedural_friction"
    /\ last.pre.pending_reviews = 5
    /\ HasEv("friction", "none")

\* Friction at a backlog of 6: the delay step is taken.
C28_WitnessDelay ==
    /\ last.op = "apply_procedural_friction"
    /\ last.pre.pending_reviews = 6
    /\ HasEv("friction", "delay")
    /\ os_state = last.pre


\* C29. Friction is applied exactly once in every mandate evaluation,
\* before any rule is evaluated, and once at the start and once at the end
\* of every verification: each mandate evaluation is followed at once by
\* its friction step, and a call holds one friction step per mandate
\* evaluation and two per verification.
C29_FrictionPlacement ==
    last.op \in {"verify_action_intent", "handler"} =>
        /\ \A i \in 1..Len(trace) :
               trace[i].k = "mandate" =>
                   i < Len(trace) /\ trace[i + 1].k = "friction"
        /\ CountKind(trace, "friction") =
               CountKind(trace, "mandate") + 2 * CountKind(trace, "verify")


\* The command of the current iteration is a shutdown command (khalt,
\* shutdown, exit), read as a line at the main prompt.
ShutdownCommand ==
    /\ last.op \in {"input", "mandate"}
    /\ last.ans.kind # "eof"
    /\ last.line # << >>
    /\ ~StartsWith(Split(last.line)[1], <<"./">>)
    /\ frame_of(last.line).cmd = "handle_shutdown"

\* The command line carries --force or -f.
ForceFlag ==
    LET args == frame_of(last.line).args
    IN  Truthy(Or(DictGet(args, Str("force")), DictGet(args, Str("f"))))

\* C30. A shutdown command terminates the process only if it is forced
\* (--force, -f) or the session is authenticated, verification with
\* re-authentication returned true and the supplied --auth-code equals the
\* expected code; in every other case the command ends with the process
\* running (unless the idle budget check finds the budget spent) and
\* identity, authenticated and sessionStart unchanged.
C30_ShutdownNeedsAuthority ==
    ShutdownCommand =>
        /\ HasEv("fwd", "SHUTDOWN") =>
               \/ ForceFlag
               \/ /\ last.cmd_pre.is_authenticated
                  /\ HasEv("reauth", "ok")
                  /\ HasEv("fwd", "CMD_INTENT")
                  /\ \E cs \in CodeSuffixes :
                        DictGet(frame_of(last.line).args, Str("auth-code")) =
                            <<SHUTDOWN_AUTH_CODE_BASE>> \o cs
        /\ ~HasEv("fwd", "SHUTDOWN") =>
               /\ os_state.user_id = last.cmd_pre.user_id
               /\ os_state.is_authenticated = last.cmd_pre.is_authenticated
               /\ os_state.session_start_time = last.cmd_pre.session_start_time
               /\ proc.state = "exited" => proc.code = EXIT_TIMEOUT /\ BudgetExhausted

\* A plain khalt in an unauthenticated session: refused, process running.
C30_Witness ==
    /\ ShutdownCommand
    /\ ~ForceFlag
    /\ ~last.cmd_pre.is_authenticated
    /\ HasEv("handler", "handle_shutdown")
    /\ HasEv("abort", "unauthenticated")
    /\ proc.state = "running" /\ pc.at = "main"

\* A forced shutdown command: the process halts.
C30_WitnessForced ==
    /\ ShutdownCommand
    /\ ForceFlag
    /\ HasEv("fwd", "SHUTDOWN")
    /\ proc = Exited(EXIT_HALT, 0)


\* The answer the klogout handler received at its confirmation prompt: the
\* line typed, stripped, or the empty string after an interrupt.
LogoutAnswer == IF last.ans.kind = "line" THEN Strip(last.ans.text) ELSE << >>

\* C31. klogout changes state only when the session is authenticated and
\* the confirmation is exactly TERMINATE_SESSION: it then raises exactly
\* one AUTH event and leaves identity unset, authenticated false and
\* sessionStart unset; when the session is unauthenticated or the
\* confirmation differs, identity, authenticated, sessionStart and backlog
\* are unchanged by the handler.
C31_LogoutOnlyOnConfirmation ==
    /\ (last.op = "input" /\ last.at = "logout_confirm"
        /\ last.ans.kind \in {"line", "intr"}) =>
           IF LogoutAnswer = TERMINATE_SESSION
           THEN /\ last.pre.is_authenticated
                /\ Forwards("AUTH") = 1
                /\ os_state.pending_reviews = last.pre.pending_reviews + 1
                /\ os_state.user_id = NoneV
                /\ os_state.is_authenticated = FALSE
                /\ os_state.session_start_time = 0
           ELSE /\ Forwards("AUTH") = 0
                /\ os_state.user_id = last.pre.user_id
                /\ os_state.is_authenticated = last.pre.is_authenticated
                /\ os_state.session_start_time = last.pre.session_start_time
                /\ os_state.pending_reviews = last.pre.pending_reviews
    /\ (HasEv("handler", "handle_logout") /\ ~last.cmd_pre.is_authenticated) =>
           /\ HasEv("abort", "no session")
           /\ pc.at # "logout_confirm"
           /\ os_state.user_id = last.cmd_pre.user_id
           /\ os_state.is_authenticated = last.cmd_pre.is_authenticated
           /\ os_state.session_start_time = last.cmd_pre.session_start_time
           /\ os_state.pending_reviews = last.cmd_pre.pending_reviews

\* A confirmed logout of an authenticated session.
C31_Witness ==
    /\ last.op = "input" /\ last.at = "logout_confirm"
    /\ LogoutAnswer = TERMINATE_SESSION
    /\ last.pre.is_authenticated
    /\ os_state.user_id = NoneV
    /\ HasEv("logout", "ok")

\* A logout refused on a different confirmation.
C31_WitnessRefused ==
    /\ last.op = "input" /\ last.at = "logout_confirm"
    /\ last.ans.kind = "line" /\ LogoutAnswer = Str("alice")
    /\ HasEv("abort", "logout")
    /\ os_state.is_authenticated


\* C32. A failed klogin (empty username, an MFA token that is not exactly
\* six digits, or a klogin issued while already authenticated) leaves
\* identity, authenticated, sessionStart and backlog unchanged; a klogin in
\* an authenticated session is refused before any prompt.
C32_FailedLoginChangesNothing ==
    /\ (\/ HasEv("abort", "already authenticated")
        \/ HasEv("abort", "null username")
        \/ HasEv("abort", "mfa format")) =>
           /\ os_state.user_id = last.cmd_pre.user_id
           /\ os_state.is_authenticated = last.cmd_pre.is_authenticated
           /\ os_state.session_start_time = last.cmd_pre.session_start_time
           /\ os_state.pending_reviews = last.cmd_pre.pending_reviews
    /\ (HasEv("handler", "handle_login") /\ last.cmd_pre.is_authenticated) =>
           /\ HasEv("abort", "already authenticated")
           /\ ~HasEv("login", "ok")
           /\ Forwards("AUTH") = 0

\* A klogin refused in an authenticated session.
C32_Witness ==
    /\ HasEv("handler", "handle_login")
    /\ HasEv("abort", "already authenticated")
    /\ last.cmd_pre.is_authenticated
    /\ os_state.is_authenticated
    /\ proc.state = "running" /\ pc.at = "main"


\* The step just taken ran on a session whose budget was already spent at
\* the clock the step ran at, and was not a shutdown.
RanExhausted ==
    /\ last.op \in {"input", "mandate"}
    /\ last.pre.session_start_time # 0
    /\ Elapsed(last.pre, now) > TIME_LIMIT_SECONDS
    /\ ~HasEv("fwd", "SHUTDOWN")

\* C33. Once the elapsed time of an authenticated session exceeds the
\* quantum, no command completes a session-state mutation before the
\* process terminates with the budget exit code: a step that runs after
\* exhaustion leaves identity, authenticated and sessionStart as
\* they were and does not bring the loop back to its prompt; in particular
\* a klogout cannot complete.
C33_NoMutationAfterExhaustion ==
    RanExhausted =>
        /\ os_state.user_id = last.pre.user_id
        /\ os_state.is_authenticated = last.pre.is_authenticated
        /\ os_state.session_start_time = last.pre.session_start_time
        /\ ~HasEv("logout", "ok")
        /\ proc.state = "running" => pc.at # "main"
        /\ proc.state = "exited" => proc.code = EXIT_TIMEOUT


\* The mandate clearance each privileged handler asks for.
HandlerClearance(h) ==
    CASE h = "handle_ls"     -> "FILESYSTEM"
      [] h = "handle_exec"   -> "PROCESS_EXEC"
      [] h = "handle_status" -> "SYSTEM_INFO"

\* C34. An authenticated kls, kexec or kstatus is subjected to two mandate
\* evaluations, STANDARD at dispatch and then the handler's own (FILESYSTEM,
\* PROCESS_EXEC, SYSTEM_INFO): when the command is over and the process
\* still runs there was one
\* STANDARD evaluation, a dispatch that allowed was followed by the handler's
\* evaluation, a denial ended the command with its one ARBITRARY_LOCKOUT
\* event, and the prime-minute rule denied nothing but kls.
C34_TwoMandateEvaluations ==
    \A h \in PrivilegedHandlers :
        (/\ HasEv("cmd", h)
         /\ last.cmd_pre.is_authenticated
         /\ last.op = "mandate"
         /\ pc.at # "mandate"
         /\ proc.state = "running") =>
            /\ CountEv(trace, "mandate", "STANDARD") = 1
            /\ Forwards("ARBITRARY_LOCKOUT") <= 1
            /\ HasEv("deny", "FS-PRIME") => h = "handle_ls"
            /\ CountKind(trace, "deny") = 1 =>
                   /\ ~HasEv("abort", "view-mode")
                   /\ ~HasEv("abort", "purpose")
                   /\ ~HasEv("abort", "compliance-check")
                   /\ ~HasEv("abort", "program")
            /\ (HasEv("handler", h) /\ CountKind(trace, "deny") = 0) =>
                   HasEv("mandate", HandlerClearance(h))


\* The kls lines that give the purpose code in the short form of the help
\* text, `-p <CODE>`.
ShortPurposeLines ==
    {line \in PrivilegedLines :
        \E i \in 1..(Len(line) - 3) :
            /\ line[i] = WS
            /\ line[i + 1] = "-"
            /\ line[i + 2] = "p"
            /\ line[i + 3] = WS}

\* C35. The purpose code in the short form `-p <CODE>` is accepted: after
\* argument parsing of `kls --view-mode=<mode> -p FS-QUERY-7701` the
\* argument p holds the code that follows it, the code is not left among
\* the positional arguments, the purpose read by kls is the required code as
\* it is with --purpose=FS-QUERY-7701, and the handler does not reject the
\* command for its purpose code.
C35_ShortPurposeFlag ==
    (last.op = "handler" /\ last.line \in ShortPurposeLines) =>
        /\ DictGet(frame_of(last.line).args, Str("p")) = STANDARD_PURPOSE_CODE_FS
        /\ frame_of(last.line).pos = << >>
        /\ purpose_of(frame_of(last.line)) = STANDARD_PURPOSE_CODE_FS
        /\ ~HasEv("abort", "purpose")

=============================================================================
